---- MODULE Spec2Model ----
(***************************************************************************)
(* Model of the ophelia crypto contract (cc) and of its secp256k1 adapter  *)
(* (cc-secp256k1).  Byte slices are sequences of bytes of their real       *)
(* lengths.  The elliptic-curve backend is modelled by ECDSA over the      *)
(* curve y^2 = x^3 + 7 on a one-byte field, so that scalars and            *)
(* coordinates keep their 32-byte big-endian encodings while the group     *)
(* stays small enough to enumerate.                                        *)
(***************************************************************************)
EXTENDS Integers, Sequences, FiniteSets, TLC

VARIABLES
    priv_key,   \* the caller's Secp256k1PrivateKey handle, or None
    pub_key,    \* the caller's Secp256k1PublicKey handle, or None
    msg,        \* the caller's HashValue, or None
    sig,        \* the caller's Secp256k1Signature handle, or None
    pubOfKey,   \* pub_key was derived from the held priv_key
    sigOfKeyMsg,\* sig was made by the held priv_key over the held msg
    call,       \* the last completed call: its name, inputs, result, steps run
    once,       \* state of the Once guarding ENGINE
    engine,     \* the ENGINE instance (0 while not constructed)
    builds,     \* number of times Secp256k1::new() ran
    pc,         \* per thread: position in its call
    seen        \* per thread: the ENGINE instance its last call used

vars == <<priv_key, pub_key, msg, sig, pubOfKey, sigOfKeyMsg, call,
          once, engine, builds, pc, seen>>

handles == <<priv_key, pub_key, msg, sig, pubOfKey, sigOfKeyMsg>>

threadVars == <<pc, seen>>

None == [none |-> TRUE]

----------------------------------------------------------------------------
(* Fixed lengths of the contract *)

SK_LEN == 32

PK_LEN == 33

SIG_LEN == 64

HASH_LEN == 32

(* Length of the backend's uncompressed public key encoding *)
UNCOMPRESSED_LEN == 65

----------------------------------------------------------------------------
(* Bounds of the explored inputs *)

\* digests and other 32-byte inputs take their last byte from 0..MaxByte
MaxByte == 8

\* the caller holding handles takes its digests' last byte from 0..MaxDigest
MaxDigest == 2

\* number of threads racing for ENGINE
NumThreads == 2

----------------------------------------------------------------------------
(* Results and errors *)

Ok(v) == [ok |-> TRUE, val |-> v]

Err(e) == [ok |-> FALSE, err |-> e]

Unit == <<>>

\* cc::CryptoError
InvalidLength == [kind |-> "InvalidLength", reason |-> ""]

InvalidSignature == [kind |-> "InvalidSignature", reason |-> ""]

InvalidPublicKey == [kind |-> "InvalidPublicKey", reason |-> ""]

InvalidPrivateKey == [kind |-> "InvalidPrivateKey", reason |-> ""]

Other(reason) == [kind |-> "Other", reason |-> reason]

\* secp256k1::Error
BackendErrors ==
    {"IncorrectSignature", "InvalidMessage", "InvalidPublicKey", "InvalidSignature",
     "InvalidSecretKey", "InvalidRecoveryId", "InvalidTweak", "NotEnoughMemory"}

\* a conversion whose InvalidTweak arm was pasted from the arm below it
FromTweakDropped(err) ==
    CASE err = "IncorrectSignature" -> InvalidSignature
      [] err = "InvalidMessage" -> InvalidLength
      [] err = "InvalidPublicKey" -> InvalidPublicKey
      [] err = "InvalidSignature" -> InvalidSignature
      [] err = "InvalidSecretKey" -> InvalidPrivateKey
      [] err = "InvalidRecoveryId" -> InvalidSignature
      [] err = "InvalidTweak" -> Other("secp256k1: not enough memory")
      [] err = "NotEnoughMemory" -> Other("secp256k1: not enough memory")

\* a conversion whose first two arms were exchanged on the right
FromIncorrectAsLength(err) ==
    CASE err = "IncorrectSignature" -> InvalidLength
      [] err = "InvalidMessage" -> InvalidLength
      [] err = "InvalidPublicKey" -> InvalidPublicKey
      [] err = "InvalidSignature" -> InvalidSignature
      [] err = "InvalidSecretKey" -> InvalidPrivateKey
      [] err = "InvalidRecoveryId" -> InvalidSignature
      [] err = "InvalidTweak" -> Other("secp256k1: bad tweak")
      [] err = "NotEnoughMemory" -> Other("secp256k1: not enough memory")

\* impl From<Secp256k1Error> for CryptoError
From(err) ==
    CASE err = "IncorrectSignature" -> InvalidSignature
      [] err = "InvalidMessage" -> InvalidLength
      [] err = "InvalidPublicKey" -> InvalidPublicKey
      [] err = "InvalidSignature" -> InvalidSignature
      [] err = "InvalidSecretKey" -> InvalidPrivateKey
      [] err = "InvalidRecoveryId" -> InvalidSignature
      [] err = "InvalidTweak" -> Other("secp256k1: bad tweak")
      [] err = "NotEnoughMemory" -> Other("secp256k1: not enough memory")

\* Result::map_err(Secp256k1Error) followed by `?`
MapErr(res) == IF res.ok THEN res ELSE Err(From(res.err))

----------------------------------------------------------------------------
(* The backend: ECDSA over y^2 = x^3 + CurveB on the field of FieldP       *)
(* elements, a group of prime order CurveN generated by GenPoint.          *)

FieldP == 13

CurveB == 7

CurveN == 7

GenPoint == [x |-> 8, y |-> 5]

Infinity == [inf |-> TRUE]

IsInf(P) == "inf" \in DOMAIN P

InvMod(a, m) == CHOOSE i \in 1..(m - 1) : (i * a) % m = 1

OnCurve(x, y) == (y * y) % FieldP = (x * x * x + CurveB) % FieldP

PointAdd(P, Q) ==
    IF IsInf(P) THEN Q
    ELSE IF IsInf(Q) THEN P
    ELSE IF P.x = Q.x /\ (P.y + Q.y) % FieldP = 0 THEN Infinity
    ELSE LET l == IF P = Q
                  THEN (3 * P.x * P.x * InvMod((2 * P.y) % FieldP, FieldP)) % FieldP
                  ELSE ((Q.y - P.y) * InvMod((Q.x - P.x) % FieldP, FieldP)) % FieldP
             x == (l * l - P.x - Q.x) % FieldP
         IN [x |-> x, y |-> (l * (P.x - x) - P.y) % FieldP]

RECURSIVE PointMul(_, _)
PointMul(k, P) == IF k = 0 THEN Infinity ELSE PointAdd(PointMul(k - 1, P), P)

----------------------------------------------------------------------------
(* Big-endian 32-byte numbers *)

\* the 32-byte big-endian encoding of hi * 256 + lo
Be32(hi, lo) == [i \in 1..32 |-> IF i = 32 THEN lo ELSE IF i = 31 THEN hi ELSE 0]

Slice(b, from, len) == [i \in 1..len |-> b[from + i - 1]]

\* the value of a 32-byte big-endian number is at least m (m < 256)
AtLeast(b, m) == (\E i \in 1..31 : b[i] # 0) \/ b[32] >= m

RECURSIVE ModOf(_, _, _)
ModOf(b, i, m) == IF i = 0 THEN 0 ELSE (ModOf(b, i - 1, m) * 256 + b[i]) % m

\* secp256k1_scalar_set_b32: the number reduced modulo the group order
Scalar(b) == ModOf(b, 32, CurveN)

----------------------------------------------------------------------------
(* Backend operations used by the adapter *)

\* secp256k1::SecretKey::from_slice
SecretKey_from_slice(data) ==
    IF Len(data) # SK_LEN THEN Err("InvalidSecretKey")
    ELSE IF AtLeast(data, CurveN) \/ Scalar(data) = 0 THEN Err("InvalidSecretKey")
    ELSE Ok(data)

\* the point with abscissa x whose ordinate has the given parity, if any
Lift(x, odd) ==
    LET ys == {y \in 0..(FieldP - 1) : OnCurve(x, y) /\ (y % 2 = 1) = odd}
    IN IF ys = {} THEN Err("InvalidPublicKey")
       ELSE Ok([x |-> x, y |-> CHOOSE y \in ys : TRUE])

\* secp256k1::PublicKey::from_slice (secp256k1_ec_pubkey_parse)
PublicKey_from_slice(data) ==
    IF Len(data) = PK_LEN /\ data[1] \in {2, 3}
    THEN LET xb == Slice(data, 2, 32)
         IN IF AtLeast(xb, FieldP) THEN Err("InvalidPublicKey")
            ELSE Lift(xb[32], data[1] = 3)
    ELSE IF Len(data) = UNCOMPRESSED_LEN /\ data[1] \in {4, 6, 7}
    THEN LET xb == Slice(data, 2, 32)
             yb == Slice(data, 34, 32)
         IN IF AtLeast(xb, FieldP) \/ AtLeast(yb, FieldP) THEN Err("InvalidPublicKey")
            ELSE IF data[1] \in {6, 7} /\ (yb[32] % 2 = 1) # (data[1] = 7)
                 THEN Err("InvalidPublicKey")
            ELSE IF ~OnCurve(xb[32], yb[32]) THEN Err("InvalidPublicKey")
            ELSE Ok([x |-> xb[32], y |-> yb[32]])
    ELSE Err("InvalidPublicKey")

\* secp256k1::PublicKey::serialize: the compressed encoding
PublicKey_serialize(pk) == <<IF pk.y % 2 = 1 THEN 3 ELSE 2>> \o Be32(0, pk.x)

\* secp256k1::PublicKey::from_secret_key
PublicKey_from_secret_key(sk) == PointMul(Scalar(sk), GenPoint)

\* secp256k1::Signature::from_compact
Signature_from_compact(data) ==
    IF Len(data) # SIG_LEN THEN Err("InvalidSignature")
    ELSE LET rb == Slice(data, 1, 32)
             sb == Slice(data, 33, 32)
         IN IF AtLeast(rb, CurveN) \/ AtLeast(sb, CurveN) THEN Err("InvalidSignature")
            ELSE Ok([r |-> rb[32], s |-> sb[32]])

\* secp256k1::Signature::serialize_compact
Signature_serialize_compact(sg) == Be32(0, sg.r) \o Be32(0, sg.s)

IsHigh(s) == 2 * s > CurveN

\* one round of secp256k1_ecdsa_sig_sign with nonce k: the signature, or a
\* failure that makes the signing loop take the next nonce
SigSign(m, sk, k) ==
    LET R == PointMul(k, GenPoint)
        r == R.x % CurveN
        s == (InvMod(k, CurveN) * (Scalar(m) + r * Scalar(sk))) % CurveN
    IN IF r = 0 \/ s = 0 THEN Err("InvalidSignature")
       ELSE Ok([r |-> r, s |-> IF IsHigh(s) THEN CurveN - s ELSE s])

\* the nonces the signing loop can end on for (m, sk)
Nonces(m, sk) == {k \in 1..(CurveN - 1) : SigSign(m, sk, k).ok}

\* Secp256k1::sign with the nonce the backend's nonce function settles on
Engine_sign(m, sk, k) == SigSign(m, sk, k).val

\* Secp256k1::verify (secp256k1_ecdsa_verify)
Engine_verify(m, sg, pk) ==
    IF IsHigh(sg.s) \/ sg.r = 0 \/ sg.s = 0 THEN Err("IncorrectSignature")
    ELSE LET sn == InvMod(sg.s, CurveN)
             u1 == (sn * Scalar(m)) % CurveN
             u2 == (sn * sg.r) % CurveN
             pr == PointAdd(PointMul(u1, GenPoint), PointMul(u2, pk))
         IN IF IsInf(pr) THEN Err("IncorrectSignature")
            ELSE IF pr.x % CurveN = sg.r THEN Ok(Unit)
            ELSE Err("IncorrectSignature")

\* Secp256k1::generate_keypair: draws 32 bytes from the rng until they are a
\* valid secret key; rng is the stream of draws
RECURSIVE Engine_generate_keypair(_)
Engine_generate_keypair(rng) ==
    LET r == SecretKey_from_slice(Head(rng))
    IN IF r.ok THEN <<r.val, PublicKey_from_secret_key(r.val)>>
       ELSE Engine_generate_keypair(Tail(rng))

----------------------------------------------------------------------------
(* The adapter: cc-secp256k1 *)

\* HashedMessage::to_bytes / into_32 and Message::from: a byte copy
Message_from(hash) == [i \in 1..HASH_LEN |-> hash[i]]

\* generate_keypair
generate_keypair(rng) == Engine_generate_keypair(rng)

\* impl TryFrom<&[u8]> for Secp256k1PrivateKey
Secp256k1PrivateKey_try_from(bytes) == MapErr(SecretKey_from_slice(bytes))

\* Secp256k1PrivateKey::sign_message
PrivateKey_sign_message(self, m, k) == Engine_sign(Message_from(m), self, k)

\* a derivation that reads the key bytes in the opposite byte order
PrivateKey_pub_key_Reversed(self) ==
    PublicKey_from_secret_key([i \in 1..SK_LEN |-> self[SK_LEN + 1 - i]])

\* Secp256k1PrivateKey::pub_key
PrivateKey_pub_key(self) == PublicKey_from_secret_key(self)

\* Secp256k1PrivateKey::to_bytes
PrivateKey_to_bytes(self) == [i \in 1..SK_LEN |-> self[i]]

\* impl TryFrom<&[u8]> for Secp256k1PublicKey
Secp256k1PublicKey_try_from(bytes) == MapErr(PublicKey_from_slice(bytes))

\* Secp256k1PublicKey::verify_signature
PublicKey_verify_signature(self, m, sg) ==
    MapErr(Engine_verify(Message_from(m), sg, self))

\* Secp256k1PublicKey::to_bytes
PublicKey_to_bytes(self) == PublicKey_serialize(self)

\* impl TryFrom<&[u8]> for Secp256k1Signature
Secp256k1Signature_try_from(bytes) == MapErr(Signature_from_compact(bytes))

\* a verify that drops the backend's result
Signature_verify_Unchecked(self, m, pk) == Ok(Unit)

\* Secp256k1Signature::verify
Signature_verify(self, m, pk) ==
    MapErr(Engine_verify(Message_from(m), self, pk))

\* a serialization that writes s before r
Signature_to_bytes_Swapped(self) == Be32(0, self.s) \o Be32(0, self.r)

\* Secp256k1Signature::to_bytes
Signature_to_bytes(self) == Signature_serialize_compact(self)

----------------------------------------------------------------------------
(* The contract: cc *)

\* HashValue::try_from
HashValue_try_from(bytes) ==
    IF Len(bytes) # HASH_LEN THEN Err(InvalidLength) ELSE Ok(bytes)

Ret(out, steps) == [out |-> out, steps |-> steps]

\* Crypto::pub_key
Crypto_pub_key(priv) ==
    LET k == Secp256k1PrivateKey_try_from(priv)
    IN IF ~k.ok THEN Ret(Err(k.err), <<"PrivateKey::try_from">>)
       ELSE Ret(Ok(PrivateKey_pub_key(k.val)), <<"PrivateKey::try_from", "pub_key">>)

\* a sign_message that pads or cuts the message to 32 bytes
Crypto_sign_message_Padded(m, priv, nonce) ==
    LET k == Secp256k1PrivateKey_try_from(priv)
        h == [i \in 1..HASH_LEN |-> IF i <= Len(m) THEN m[i] ELSE 0]
    IN IF ~k.ok THEN Ret(Err(k.err), <<"PrivateKey::try_from">>)
       ELSE Ret(Ok(PrivateKey_sign_message(k.val, h, CHOOSE n \in Nonces(h, k.val) : TRUE)),
                <<"PrivateKey::try_from", "HashValue::try_from", "sign_message">>)

\* a sign_message that parses the message before the key
Crypto_sign_message_MsgFirst(m, priv, nonce) ==
    LET h == HashValue_try_from(m)
    IN IF ~h.ok THEN Ret(Err(h.err), <<"HashValue::try_from">>)
       ELSE LET k == Secp256k1PrivateKey_try_from(priv)
            IN IF ~k.ok
               THEN Ret(Err(k.err), <<"HashValue::try_from", "PrivateKey::try_from">>)
               ELSE Ret(Ok(PrivateKey_sign_message(k.val, h.val, nonce)),
                        <<"HashValue::try_from", "PrivateKey::try_from", "sign_message">>)

\* Crypto::sign_message
Crypto_sign_message(m, priv, nonce) ==
    LET k == Secp256k1PrivateKey_try_from(priv)
    IN IF ~k.ok THEN Ret(Err(k.err), <<"PrivateKey::try_from">>)
       ELSE LET h == HashValue_try_from(m)
            IN IF ~h.ok
               THEN Ret(Err(h.err), <<"PrivateKey::try_from", "HashValue::try_from">>)
               ELSE Ret(Ok(PrivateKey_sign_message(k.val, h.val, nonce)),
                        <<"PrivateKey::try_from", "HashValue::try_from", "sign_message">>)

\* a verify_signature that parses the public key before the signature
Crypto_verify_signature_KeyFirst(m, sg, pk) ==
    LET h == HashValue_try_from(m)
    IN IF ~h.ok THEN Ret(Err(h.err), <<"HashValue::try_from">>)
       ELSE LET p == Secp256k1PublicKey_try_from(pk)
            IN IF ~p.ok
               THEN Ret(Err(p.err), <<"HashValue::try_from", "PublicKey::try_from">>)
               ELSE LET s == Secp256k1Signature_try_from(sg)
                        parsed == <<"HashValue::try_from", "PublicKey::try_from",
                                    "Signature::try_from">>
                    IN IF ~s.ok THEN Ret(Err(s.err), parsed)
                       ELSE LET v == Signature_verify(s.val, h.val, p.val)
                            IN IF ~v.ok THEN Ret(Err(v.err), Append(parsed, "verify"))
                               ELSE Ret(Ok(Unit), Append(parsed, "verify"))

\* Crypto::verify_signature
Crypto_verify_signature(m, sg, pk) ==
    LET h == HashValue_try_from(m)
    IN IF ~h.ok THEN Ret(Err(h.err), <<"HashValue::try_from">>)
       ELSE LET s == Secp256k1Signature_try_from(sg)
            IN IF ~s.ok
               THEN Ret(Err(s.err), <<"HashValue::try_from", "Signature::try_from">>)
               ELSE LET p == Secp256k1PublicKey_try_from(pk)
                        parsed == <<"HashValue::try_from", "Signature::try_from",
                                    "PublicKey::try_from">>
                    IN IF ~p.ok THEN Ret(Err(p.err), parsed)
                       ELSE LET v == Signature_verify(s.val, h.val, p.val)
                            IN IF ~v.ok THEN Ret(Err(v.err), Append(parsed, "verify"))
                               ELSE Ret(Ok(Unit), Append(parsed, "verify"))

----------------------------------------------------------------------------
(* Inputs *)

\* 32-byte numbers: the small ones, and one of 256 or more
Bytes32 == {Be32(0, b) : b \in 0..MaxByte} \cup {Be32(1, 0)}

\* slices one byte short, one byte long, and empty
WrongLen(b) == {Tail(b), b \o <<0>>, <<>>}

PrivInputs == Bytes32 \cup WrongLen(Be32(0, 1))

MsgInputs == Bytes32 \cup WrongLen(Be32(0, 1))

\* field elements, and the first value that is not one
Coords == 0..FieldP

SigInputs ==
    {Be32(0, r) \o Be32(0, s) : r \in 0..CurveN, s \in 0..CurveN}
        \cup {Be32(1, 0) \o Be32(0, 1), Be32(0, 1) \o Be32(1, 0)}
        \cup WrongLen(Be32(0, 1) \o Be32(0, 1))

PubInputs ==
    {<<t>> \o Be32(0, x) : t \in {2, 3, 4}, x \in Coords}
        \cup {<<t>> \o Be32(0, x) \o Be32(0, y) :
                 t \in {3, 4, 6, 7}, x \in {7, 8, FieldP}, y \in {5, 6, 8}}
        \cup {<<2>> \o Be32(1, 8), <<4>> \o Be32(0, 8) \o Be32(1, 5)}
        \cup WrongLen(<<2>> \o Be32(0, 8))
        \cup WrongLen(<<4>> \o Be32(0, 8) \o Be32(0, 5))

\* the values of the results that are Ok
Values(results) == {r.val : r \in {x \in results : x.ok}}

\* the handles a caller can hold
PrivateKeys == Values({Secp256k1PrivateKey_try_from(b) : b \in PrivInputs})

PublicKeys == Values({Secp256k1PublicKey_try_from(b) : b \in PubInputs})

Signatures == Values({Secp256k1Signature_try_from(b) : b \in SigInputs})

Hashes == Values({HashValue_try_from(b) : b \in MsgInputs})

\* streams of draws of a randomness source on which key generation ends
RngStreams == {<<a, b>> : a \in Bytes32, b \in {Be32(0, 1), Be32(0, 2)}}

\* what the caller holding handles parses: fewer digests, and public keys
\* in the compressed encoding (the abscissas of the curve's points, and 0)
CallerMsgInputs == {Be32(0, b) : b \in 0..MaxDigest} \cup WrongLen(Be32(0, 1))

CallerPubInputs == {<<t>> \o Be32(0, x) : t \in {2, 3}, x \in {0, 7, 8, 11}}

----------------------------------------------------------------------------
(* ENGINE: lazy_static over std::sync::Once *)

Threads == 1..NumThreads

Idle == [at |-> "idle", op |-> "none"]

\* a deref of ENGINE by a caller that runs alone: the first one constructs
EngineDeref ==
    /\ once' = "COMPLETE"
    /\ builds' = IF once = "COMPLETE" THEN builds ELSE builds + 1
    /\ engine' = IF once = "COMPLETE" THEN engine ELSE builds + 1

EngineUntouched == UNCHANGED <<once, engine, builds>>

----------------------------------------------------------------------------
(* Calls on inputs: every operation applied once to inputs drawn from the  *)
(* sets above                                                              *)

NoCall == [op |-> "none", in |-> <<>>, out |-> <<>>, steps |-> <<>>]

Call(op, in, out, steps) == [op |-> op, in |-> in, out |-> out, steps |-> steps]

Init ==
    /\ priv_key = None /\ pub_key = None /\ msg = None /\ sig = None
    /\ pubOfKey = FALSE /\ sigOfKeyMsg = FALSE
    /\ call = NoCall
    /\ once = "INCOMPLETE" /\ engine = 0 /\ builds = 0
    /\ pc = [t \in Threads |-> Idle]
    /\ seen = [t \in Threads |-> 0]

Fresh == call = NoCall

GenerateKeypair ==
    /\ Fresh
    /\ \E rng \in RngStreams :
        /\ call' = Call("generate_keypair", rng, generate_keypair(rng), <<>>)
        /\ EngineDeref
        /\ UNCHANGED <<handles, threadVars>>

PrivateKeyTryFrom ==
    /\ Fresh
    /\ \E bytes \in PrivInputs :
        /\ call' = Call("PrivateKey::try_from", bytes,
                        Secp256k1PrivateKey_try_from(bytes), <<>>)
        /\ EngineUntouched
        /\ UNCHANGED <<handles, threadVars>>

SignMessage ==
    /\ Fresh
    /\ \E self \in PrivateKeys, m \in Hashes :
        \E k \in Nonces(Message_from(m), self) :
            /\ call' = Call("sign_message", <<self, m>>,
                            PrivateKey_sign_message(self, m, k), <<>>)
            /\ EngineDeref
            /\ UNCHANGED <<handles, threadVars>>

PubKey ==
    /\ Fresh
    /\ \E self \in PrivateKeys :
        /\ call' = Call("pub_key", self, PrivateKey_pub_key(self), <<>>)
        /\ EngineDeref
        /\ UNCHANGED <<handles, threadVars>>

PrivateKeyToBytes ==
    /\ Fresh
    /\ \E self \in PrivateKeys :
        /\ call' = Call("PrivateKey::to_bytes", self, PrivateKey_to_bytes(self), <<>>)
        /\ EngineUntouched
        /\ UNCHANGED <<handles, threadVars>>

PublicKeyTryFrom ==
    /\ Fresh
    /\ \E bytes \in PubInputs :
        /\ call' = Call("PublicKey::try_from", bytes,
                        Secp256k1PublicKey_try_from(bytes), <<>>)
        /\ EngineUntouched
        /\ UNCHANGED <<handles, threadVars>>

VerifySignature ==
    /\ Fresh
    /\ \E self \in PublicKeys, m \in Hashes, sg \in Signatures :
        /\ call' = Call("verify_signature", <<m, sg, self>>,
                        PublicKey_verify_signature(self, m, sg), <<>>)
        /\ EngineDeref
        /\ UNCHANGED <<handles, threadVars>>

PublicKeyToBytes ==
    /\ Fresh
    /\ \E self \in PublicKeys :
        /\ call' = Call("PublicKey::to_bytes", self, PublicKey_to_bytes(self), <<>>)
        /\ EngineUntouched
        /\ UNCHANGED <<handles, threadVars>>

SignatureTryFrom ==
    /\ Fresh
    /\ \E bytes \in SigInputs :
        /\ call' = Call("Signature::try_from", bytes,
                        Secp256k1Signature_try_from(bytes), <<>>)
        /\ EngineUntouched
        /\ UNCHANGED <<handles, threadVars>>

Verify ==
    /\ Fresh
    /\ \E self \in Signatures, m \in Hashes, pk \in PublicKeys :
        /\ call' = Call("verify", <<m, self, pk>>, Signature_verify(self, m, pk), <<>>)
        /\ EngineDeref
        /\ UNCHANGED <<handles, threadVars>>

SignatureToBytes ==
    /\ Fresh
    /\ \E self \in Signatures :
        /\ call' = Call("Signature::to_bytes", self, Signature_to_bytes(self), <<>>)
        /\ EngineUntouched
        /\ UNCHANGED <<handles, threadVars>>

ErrorFrom ==
    /\ Fresh
    /\ \E err \in BackendErrors :
        /\ call' = Call("CryptoError::from", err, From(err), <<>>)
        /\ EngineUntouched
        /\ UNCHANGED <<handles, threadVars>>

CryptoPubKey ==
    /\ Fresh
    /\ \E priv \in PrivInputs :
        \E r \in {Crypto_pub_key(priv)} :
           /\ call' = Call("Crypto::pub_key", priv, r.out, r.steps)
           /\ IF r.out.ok THEN EngineDeref ELSE EngineUntouched
           /\ UNCHANGED <<handles, threadVars>>

CryptoSignMessage ==
    /\ Fresh
    /\ \E m \in MsgInputs, priv \in PrivInputs, k \in 1..(CurveN - 1) :
        LET r == Crypto_sign_message(m, priv, k)
            signs == Secp256k1PrivateKey_try_from(priv).ok /\ HashValue_try_from(m).ok
        IN /\ signs => k \in Nonces(m, priv)
           /\ call' = Call("Crypto::sign_message", <<m, priv>>, r.out, r.steps)
           /\ IF r.out.ok THEN EngineDeref ELSE EngineUntouched
           /\ UNCHANGED <<handles, threadVars>>

CryptoVerifySignature ==
    /\ Fresh
    /\ \E m \in MsgInputs, sg \in SigInputs, pk \in PubInputs :
        \E r \in {Crypto_verify_signature(m, sg, pk)} :
           /\ call' = Call("Crypto::verify_signature", <<m, sg, pk>>, r.out, r.steps)
           /\ IF "verify" \in {r.steps[i] : i \in DOMAIN r.steps}
              THEN EngineDeref ELSE EngineUntouched
           /\ UNCHANGED <<handles, threadVars>>

Next ==
    \/ GenerateKeypair
    \/ PrivateKeyTryFrom
    \/ SignMessage
    \/ PubKey
    \/ PrivateKeyToBytes
    \/ PublicKeyTryFrom
    \/ VerifySignature
    \/ PublicKeyToBytes
    \/ SignatureTryFrom
    \/ Verify
    \/ SignatureToBytes
    \/ ErrorFrom
    \/ CryptoPubKey
    \/ CryptoSignMessage
    \/ CryptoVerifySignature

Spec == Init /\ [][Next]_vars

----------------------------------------------------------------------------
(* A caller holding typed handles: keys are generated, parsed or derived,  *)
(* digests parsed, signatures made, and what is held is verified           *)

Held(h) == h # None

\* the call's result, with what was known of the handles when it was made
HeldCall(op, out) ==
    Call(op, [pubOfKey |-> pubOfKey, sigOfKeyMsg |-> sigOfKeyMsg], out, <<>>)

CallerGenerates ==
    \E rng \in RngStreams :
        \E pair \in {generate_keypair(rng)} :
           /\ priv_key' = pair[1]
           /\ pub_key' = pair[2]
           /\ pubOfKey' = TRUE
           /\ sigOfKeyMsg' = FALSE
           /\ call' = Call("generate_keypair", <<>>, pair, <<>>)
           /\ EngineDeref
           /\ UNCHANGED <<msg, sig, threadVars>>

CallerParsesKey ==
    \E bytes \in PrivInputs :
        \E r \in {Secp256k1PrivateKey_try_from(bytes)} :
           /\ call' = Call("PrivateKey::try_from", <<>>, r, <<>>)
           /\ IF r.ok
              THEN /\ priv_key' = r.val
                   /\ pubOfKey' = FALSE
                   /\ sigOfKeyMsg' = FALSE
              ELSE UNCHANGED <<priv_key, pubOfKey, sigOfKeyMsg>>
           /\ EngineUntouched
           /\ UNCHANGED <<pub_key, msg, sig, threadVars>>

CallerParsesHash ==
    \E bytes \in CallerMsgInputs :
        \E r \in {HashValue_try_from(bytes)} :
           /\ call' = Call("HashValue::try_from", <<>>, r, <<>>)
           /\ IF r.ok
              THEN /\ msg' = r.val
                   /\ sigOfKeyMsg' = FALSE
              ELSE UNCHANGED <<msg, sigOfKeyMsg>>
           /\ EngineUntouched
           /\ UNCHANGED <<priv_key, pub_key, sig, pubOfKey, threadVars>>

CallerParsesPublicKey ==
    \E bytes \in CallerPubInputs :
        \E r \in {Secp256k1PublicKey_try_from(bytes)} :
           /\ call' = Call("PublicKey::try_from", <<>>, r, <<>>)
           /\ IF r.ok
              THEN /\ pub_key' = r.val
                   /\ pubOfKey' = FALSE
              ELSE UNCHANGED <<pub_key, pubOfKey>>
           /\ EngineUntouched
           /\ UNCHANGED <<priv_key, msg, sig, sigOfKeyMsg, threadVars>>

CallerDerives ==
    /\ Held(priv_key)
    /\ pub_key' = PrivateKey_pub_key(priv_key)
    /\ pubOfKey' = TRUE
    /\ call' = Call("pub_key", <<>>, pub_key', <<>>)
    /\ EngineDeref
    /\ UNCHANGED <<priv_key, msg, sig, sigOfKeyMsg, threadVars>>

CallerSigns ==
    /\ Held(priv_key) /\ Held(msg)
    /\ \E k \in Nonces(Message_from(msg), priv_key) :
        /\ sig' = PrivateKey_sign_message(priv_key, msg, k)
        /\ sigOfKeyMsg' = TRUE
        /\ call' = Call("sign_message", <<>>, sig', <<>>)
    /\ EngineDeref
    /\ UNCHANGED <<priv_key, pub_key, msg, pubOfKey, threadVars>>

CallerVerifiesByKey ==
    /\ Held(pub_key) /\ Held(msg) /\ Held(sig)
    /\ call' = HeldCall("verify_signature", PublicKey_verify_signature(pub_key, msg, sig))
    /\ EngineDeref
    /\ UNCHANGED <<handles, threadVars>>

CallerVerifiesBySignature ==
    /\ Held(pub_key) /\ Held(msg) /\ Held(sig)
    /\ call' = HeldCall("verify", Signature_verify(sig, msg, pub_key))
    /\ EngineDeref
    /\ UNCHANGED <<handles, threadVars>>

CallerNext ==
    \/ CallerGenerates
    \/ CallerParsesKey
    \/ CallerParsesHash
    \/ CallerParsesPublicKey
    \/ CallerDerives
    \/ CallerSigns
    \/ CallerVerifiesByKey
    \/ CallerVerifiesBySignature

CallerSpec == Init /\ [][CallerNext]_vars

----------------------------------------------------------------------------
(* Threads whose calls meet at ENGINE *)

EngineOps == {"generate_keypair", "sign_message", "pub_key", "verify_signature", "verify"}

At(t, where) == pc[t].at = where

Goto(t, where) == pc' = [pc EXCEPT ![t] = [at |-> where, op |-> pc[t].op]]

\* a thread enters one of the operations that use ENGINE
Enter(t) ==
    /\ At(t, "idle")
    /\ \E op \in EngineOps : pc' = [pc EXCEPT ![t] = [at |-> "deref", op |-> op]]
    /\ UNCHANGED <<handles, call, once, engine, builds, seen>>

\* a deref that tests the Once and claims it in two steps
DerefUnguarded(t) ==
    /\ At(t, "deref")
    /\ IF once = "COMPLETE" THEN Goto(t, "use") ELSE Goto(t, "init")
    /\ UNCHANGED <<handles, call, once, engine, builds, seen>>

\* deref of ENGINE: Once::call_once up to the point where the closure runs
Deref(t) ==
    /\ At(t, "deref")
    /\ CASE once = "COMPLETE" -> Goto(t, "use") /\ once' = once
         [] once = "INCOMPLETE" -> Goto(t, "init") /\ once' = "RUNNING"
         [] once = "RUNNING" -> Goto(t, "wait") /\ once' = once
    /\ UNCHANGED <<handles, call, engine, builds, seen>>

\* the closure: Secp256k1::new(), then the Once completes
Construct(t) ==
    /\ At(t, "init")
    /\ builds' = builds + 1
    /\ engine' = builds + 1
    /\ once' = "COMPLETE"
    /\ Goto(t, "use")
    /\ UNCHANGED <<handles, call, seen>>

\* a thread that found the Once running resumes when it has completed
Resume(t) ==
    /\ At(t, "wait")
    /\ once = "COMPLETE"
    /\ Goto(t, "use")
    /\ UNCHANGED <<handles, call, once, engine, builds, seen>>

\* the operation runs on the instance the deref gave, and returns
Use(t) ==
    /\ At(t, "use")
    /\ seen' = [seen EXCEPT ![t] = engine]
    /\ pc' = [pc EXCEPT ![t] = Idle]
    /\ UNCHANGED <<handles, call, once, engine, builds>>

Run(t) == Deref(t) \/ Construct(t) \/ Resume(t) \/ Use(t)

EngineNext == \E t \in Threads : Enter(t) \/ Run(t)

EngineSpec == Init /\ [][EngineNext]_vars

\* a thread inside a call keeps being scheduled
FairEngineSpec == EngineSpec /\ \A t \in Threads : WF_vars(Run(t))

----------------------------------------------------------------------------
(* Properties *)

Did(op) == call.op = op

\* C1: a signature made by a private key over a digest is accepted under the
\* public key derived from that private key (by pub_key or by
\* generate_keypair), by PublicKey::verify_signature and by Signature::verify.
C1_SignThenVerifyAccepts ==
    (Did("verify_signature") \/ Did("verify"))
        => (call.in.pubOfKey /\ call.in.sigOfKeyMsg => call.out = Ok(Unit))

C1_Witness ==
    /\ Did("verify")
    /\ call.in.pubOfKey /\ call.in.sigOfKeyMsg
    /\ call.out = Ok(Unit)
    /\ pub_key # GenPoint

\* C2: on every triple (digest, signature, public key) Signature::verify and
\* PublicKey::verify_signature return the same result.
C2_VerifyEntryPointsAgree ==
    /\ Did("verify")
         => call.out = PublicKey_verify_signature(call.in[3], call.in[1], call.in[2])
    /\ Did("verify_signature")
         => call.out = Signature_verify(call.in[2], call.in[1], call.in[3])

C2_Witness ==
    /\ Did("verify")
    /\ ~call.out.ok
    /\ call.out = PublicKey_verify_signature(call.in[3], call.in[1], call.in[2])

\* C3: Crypto::verify_signature parses the digest, then the signature, then
\* the public key, returns the error of the first parse that fails without
\* running a later step, and returns Ok only when the three parses succeed
\* and the signature verifies.
C3_VerifyParsesInOrder ==
    Did("Crypto::verify_signature") =>
        LET h == HashValue_try_from(call.in[1])
            s == Secp256k1Signature_try_from(call.in[2])
            p == Secp256k1PublicKey_try_from(call.in[3])
        IN /\ ~h.ok => call.out = Err(h.err) /\ call.steps = <<"HashValue::try_from">>
           /\ h.ok /\ ~s.ok
                => /\ call.out = Err(s.err)
                   /\ call.steps = <<"HashValue::try_from", "Signature::try_from">>
           /\ h.ok /\ s.ok /\ ~p.ok
                => /\ call.out = Err(p.err)
                   /\ call.steps = <<"HashValue::try_from", "Signature::try_from",
                                     "PublicKey::try_from">>
           /\ call.out.ok
                <=> h.ok /\ s.ok /\ p.ok /\ Engine_verify(h.val, s.val, p.val).ok

C3_Witness ==
    /\ Did("Crypto::verify_signature")
    /\ call.out = Err(InvalidSignature)
    /\ call.steps = <<"HashValue::try_from", "Signature::try_from">>
    /\ ~Secp256k1PublicKey_try_from(call.in[3]).ok

\* C4 as claimed: Crypto::sign_message fails with InvalidLength whenever the
\* message is not 32 bytes long.
C4_WrongLengthIsInvalidLength ==
    Did("Crypto::sign_message") /\ Len(call.in[1]) # HASH_LEN
        => call.out = Err(InvalidLength)

\* C4: Crypto::sign_message never returns a signature for a message that is
\* not 32 bytes long: it fails with InvalidLength when the private key bytes
\* parse, and with the private key's parse error when they do not.
C4_WrongLengthFails ==
    Did("Crypto::sign_message") /\ Len(call.in[1]) # HASH_LEN
        => LET k == Secp256k1PrivateKey_try_from(call.in[2])
           IN /\ ~call.out.ok
              /\ k.ok => call.out.err = InvalidLength
              /\ ~k.ok => call.out.err = k.err

C4_Witness ==
    /\ Did("Crypto::sign_message")
    /\ Len(call.in[1]) # HASH_LEN
    /\ Secp256k1PrivateKey_try_from(call.in[2]).ok
    /\ call.out = Err(InvalidLength)

\* the table of the specification
SpecTable(err) ==
    CASE err = "IncorrectSignature" -> InvalidSignature
      [] err = "InvalidMessage" -> InvalidLength
      [] err = "InvalidPublicKey" -> InvalidPublicKey
      [] err = "InvalidSignature" -> InvalidSignature
      [] err = "InvalidSecretKey" -> InvalidPrivateKey
      [] err = "InvalidRecoveryId" -> InvalidSignature
      [] err = "InvalidTweak" -> Other("bad tweak")
      [] err = "NotEnoughMemory" -> Other("not enough memory")

\* C5 as claimed: the conversion of a backend error follows the table of the
\* specification, with Other("bad tweak") and Other("not enough memory").
C5_ErrorTableAsWritten == Did("CryptoError::from") => call.out = SpecTable(call.in)

\* C5: the conversion of a backend error is total and follows the table of
\* the specification, except that the two Other reasons are
\* "secp256k1: bad tweak" and "secp256k1: not enough memory".
C5_ErrorTable ==
    Did("CryptoError::from") =>
        /\ call.in \in BackendErrors
        /\ call.out =
             CASE call.in = "InvalidTweak" -> Other("secp256k1: bad tweak")
               [] call.in = "NotEnoughMemory" -> Other("secp256k1: not enough memory")
               [] OTHER -> SpecTable(call.in)

C5_Witness == Did("CryptoError::from") /\ call.out = Other("secp256k1: bad tweak")

\* C6: try_from on a slice whose length is not the type's fixed length (32
\* for a private key, 33 for a public key, 64 for a signature) returns Err.
C6_WrongLengthRejected ==
    /\ Did("PrivateKey::try_from") /\ Len(call.in) # SK_LEN => ~call.out.ok
    /\ Did("PublicKey::try_from") /\ Len(call.in) # PK_LEN => ~call.out.ok
    /\ Did("Signature::try_from") /\ Len(call.in) # SIG_LEN => ~call.out.ok

\* the case that refutes C6: a 65-byte public key slice is accepted
C6_Accepted65 ==
    /\ Did("PublicKey::try_from")
    /\ Len(call.in) = UNCOMPRESSED_LEN
    /\ call.out.ok

\* C7: however the threads' calls interleave, ENGINE is constructed at most
\* once, a thread uses it only after its construction completed, all threads
\* use the same instance, the instance never changes once built, and every
\* call that reached ENGINE returns.
C7_Safe ==
    /\ builds <= 1
    /\ \A t \in Threads : At(t, "use") => once = "COMPLETE" /\ engine # 0 /\ builds = 1
    /\ \A t \in Threads : seen[t] # 0 => seen[t] = engine

C7_EngineBuiltOnce ==
    /\ []C7_Safe
    /\ [][engine # 0 => engine' = engine /\ once' = "COMPLETE"]_vars
    /\ \A t \in Threads : At(t, "deref") ~> At(t, "idle")

C7_Witness ==
    \E t, u \in Threads :
        /\ At(t, "wait") /\ seen[t] = 0
        /\ At(u, "use") /\ seen[u] = 0
        /\ builds = 1

\* C8: the bytes of a private key, of a public key and of a signature parse
\* back, with try_from, to a handle whose bytes are the same.
RoundTrips(bytes, try_from(_), to_bytes(_)) ==
    LET r == try_from(bytes) IN r.ok /\ to_bytes(r.val) = bytes

C8_BytesRoundTrip ==
    /\ Did("PrivateKey::to_bytes")
         => /\ Len(call.out) = SK_LEN
            /\ RoundTrips(call.out, Secp256k1PrivateKey_try_from, PrivateKey_to_bytes)
    /\ Did("PublicKey::to_bytes")
         => /\ Len(call.out) = PK_LEN
            /\ RoundTrips(call.out, Secp256k1PublicKey_try_from, PublicKey_to_bytes)
    /\ Did("Signature::to_bytes")
         => /\ Len(call.out) = SIG_LEN
            /\ RoundTrips(call.out, Secp256k1Signature_try_from, Signature_to_bytes)

C8_Witness ==
    /\ Did("Signature::to_bytes")
    /\ call.in.r # call.in.s
    /\ RoundTrips(call.out, Secp256k1Signature_try_from, Signature_to_bytes)

\* sg is an ECDSA signature over digest m under public key pk: for the
\* private key d of pk and some nonce k, r is the abscissa of k*G and
\* s = (m + r*d)/k, in the low half of the scalars
IsSignatureOf(sg, m, pk) ==
    \E d \in 1..(CurveN - 1), k \in 1..(CurveN - 1) :
        /\ PointMul(d, GenPoint) = pk
        /\ sg.r = PointMul(k, GenPoint).x % CurveN
        /\ sg.s = (InvMod(k, CurveN) * (Scalar(m) + sg.r * d)) % CurveN
        /\ sg.r # 0 /\ sg.s # 0 /\ ~IsHigh(sg.s)

\* C9: PublicKey::verify_signature and Signature::verify return Ok exactly
\* when the signature is a valid signature over the digest under the public
\* key, and Err(InvalidSignature) in every other case.
C9_VerifyIffValid ==
    (Did("verify_signature") \/ Did("verify")) =>
        IF IsSignatureOf(call.in[2], call.in[1], call.in[3])
        THEN call.out = Ok(Unit)
        ELSE call.out = Err(InvalidSignature)

C9_Witness ==
    /\ Did("verify_signature")
    /\ call.out = Err(InvalidSignature)
    /\ \E m \in Hashes : IsSignatureOf(call.in[2], m, call.in[3])

\* C10: Crypto::sign_message parses the private key before the message and
\* Crypto::pub_key parses the private key alone: invalid private key bytes
\* give the private key's parse error whatever the message is, the message
\* is parsed only after the key has parsed, and nothing is signed or derived
\* after a parse failure.
C10_KeyParsedFirst ==
    /\ Did("Crypto::sign_message") =>
           LET k == Secp256k1PrivateKey_try_from(call.in[2])
               h == HashValue_try_from(call.in[1])
           IN /\ ~k.ok => call.out = Err(k.err) /\ call.steps = <<"PrivateKey::try_from">>
              /\ k.ok /\ ~h.ok
                   => /\ call.out = Err(h.err)
                      /\ call.steps = <<"PrivateKey::try_from", "HashValue::try_from">>
              /\ call.out.ok <=> k.ok /\ h.ok
              /\ call.out.ok <=> "sign_message" \in {call.steps[i] : i \in DOMAIN call.steps}
    /\ Did("Crypto::pub_key") =>
           LET k == Secp256k1PrivateKey_try_from(call.in)
           IN /\ ~k.ok => call.out = Err(k.err) /\ call.steps = <<"PrivateKey::try_from">>
              /\ k.ok => /\ call.out = Ok(PublicKey_from_secret_key(k.val))
                         /\ call.steps = <<"PrivateKey::try_from", "pub_key">>

C10_Witness ==
    /\ Did("Crypto::sign_message")
    /\ Len(call.in[1]) # HASH_LEN
    /\ call.out = Err(InvalidPrivateKey)
    /\ call.steps = <<"PrivateKey::try_from">>

====
